---------------------------- MODULE Spec2Model ----------------------------
(***************************************************************************)
(* Graph<T> of src/graph.rs: an adjacency mapping built by add_edge and    *)
(* two depth-first enumerations of simple paths, find_all_paths and        *)
(* find_paths_with_max_steps.                                              *)
(*                                                                         *)
(* Spec      the public operations, one action per call (whole handler).   *)
(* WalkSpec  the same queries run one statement of the recursive helper    *)
(*           at a time, with an explicit call stack.                       *)
(* WalkFair  WalkSpec with the fairness of a synchronous call: a started   *)
(*           query keeps executing statements.                             *)
(*                                                                         *)
(* Node keys are the opaque type T (Eq + Hash + Clone); here 1..NumNodes.  *)
(* HashSet iteration order is unspecified: every order is modelled.        *)
(***************************************************************************)
EXTENDS Integers, Sequences, FiniteSets, TLC

\* ------------------------------------------------------------- bounds
NumNodes == 3
MaxEdges == 3
Nodes == 1..NumNodes
\* usize values tried for max_steps: 0 up to the most nodes a path can have
StepLimits == 0..NumNodes

VARIABLES
    is_directed,      \* Graph.is_directed
    adjacency_list,   \* Graph.adjacency_list: function key -> set of keys
    inserted,         \* history: the pairs <<x, y>> passed to add_edge so far
    call,             \* the last public call: op, args, graph before it, returned value
    start, end, max_steps,   \* parameters of the running query (WalkSpec)
    visited, path, paths,    \* the locals shared by reference with the helper
    stack             \* call stack of helper invocations, innermost last

vars == <<is_directed, adjacency_list, inserted, call,
          start, end, max_steps, visited, path, paths, stack>>

graphVars == <<is_directed, adjacency_list, inserted>>
walkVars == <<start, end, max_steps, visited, path, paths, stack>>

\* ------------------------------------------------------------- Graph
\* HashMap::new()
EmptyMap == [k \in {} |-> {}]

\* Option<bool>::unwrap_or(false)
unwrap_or(opt, default) ==
    CASE opt = "None" -> default
      [] opt = "Some(true)" -> TRUE
      [] opt = "Some(false)" -> FALSE

\* Graph::new
new(opt) ==
    [is_directed |-> unwrap_or(opt, FALSE), adjacency_list |-> EmptyMap]

\* HashMap::get(&k): Some(set) or None
get(adj, k) == IF k \in DOMAIN adj THEN <<adj[k]>> ELSE <<>>

\* mutant: HashMap::insert(k, {v}) in place of entry().or_insert().insert()
entry_overwrites(adj, k, v) ==
    IF k \in DOMAIN adj
    THEN [adj EXCEPT ![k] = {v}]
    ELSE adj @@ (k :> {v})

\* adjacency_list.entry(k).or_insert(HashSet::new()).insert(v)
entry_or_insert_insert(adj, k, v) ==
    IF k \in DOMAIN adj
    THEN [adj EXCEPT ![k] = @ \cup {v}]
    ELSE adj @@ (k :> {v})

\* mutant: the reverse edge is recorded whatever is_directed says
add_edge_always_symmetric(directed, adj, vector_x, vector_y) ==
    entry_or_insert_insert(entry_or_insert_insert(adj, vector_x, vector_y),
                           vector_y, vector_x)

\* Graph::add_edge on the adjacency mapping
add_edge(directed, adj, vector_x, vector_y) ==
    LET a1 == entry_or_insert_insert(adj, vector_x, vector_y)
    IN IF ~directed
       THEN entry_or_insert_insert(a1, vector_y, vector_x)
       ELSE a1

\* ------------------------------------------------- queries, as functions
\* The locals passed by &mut: a record [visited, path, paths].  Each helper
\* returns the set of states it can leave them in, one per iteration order
\* of the neighbour sets.
pop(s) == SubSeq(s, 1, Len(s) - 1)

\* lines 69-70: visited.insert(neighbor); path.push(neighbor)
Descend(st, neighbor) ==
    [st EXCEPT !.visited = @ \cup {neighbor}, !.path = Append(@, neighbor)]

\* mutant: visited.remove(neighbor) forgotten
Backtrack_keeps_visited(st, neighbor) ==
    [st EXCEPT !.path = pop(@)]

\* mutant: path.pop() forgotten
Backtrack_keeps_path(st, neighbor) ==
    [st EXCEPT !.visited = @ \ {neighbor}]

\* lines 72-73: path.pop(); visited.remove(neighbor)
Backtrack(st, neighbor) ==
    [st EXCEPT !.path = pop(@), !.visited = @ \ {neighbor}]

\* lines 62 / 111: paths.push(path.clone())
Record(st) == [st EXCEPT !.paths = Append(@, st.path)]

RECURSIVE find_all_paths_helper(_, _, _, _)
RECURSIVE find_all_paths_loop(_, _, _, _)

\* the for loop of lines 67-75 over the neighbours not yet iterated
find_all_paths_loop(adj, end_, rest, st) ==
    IF rest = {} THEN {st}
    ELSE UNION {
        LET after == IF neighbor \notin st.visited
                     THEN { Backtrack(s2, neighbor) :
                              s2 \in find_all_paths_helper(adj, neighbor, end_,
                                                           Descend(st, neighbor)) }
                     ELSE {st}
        IN UNION { find_all_paths_loop(adj, end_, rest \ {neighbor}, s3) : s3 \in after }
        : neighbor \in rest }

find_all_paths_helper(adj, start_, end_, st) ==
    IF start_ = end_ THEN {Record(st)}
    ELSE LET neighbors == get(adj, start_)
         IN IF neighbors # <<>>
            THEN find_all_paths_loop(adj, end_, neighbors[1], st)
            ELSE {st}

\* Graph::find_all_paths: the possible returned vectors
find_all_paths(adj, start_, end_) ==
    LET st == [visited |-> {start_}, path |-> <<start_>>, paths |-> <<>>]
    IN { s.paths : s \in find_all_paths_helper(adj, start_, end_, st) }

RECURSIVE find_paths_with_max_steps_helper(_, _, _, _, _)
RECURSIVE find_paths_with_max_steps_loop(_, _, _, _, _)

\* the for loop of lines 120-135
find_paths_with_max_steps_loop(adj, end_, max_steps_, rest, st) ==
    IF rest = {} THEN {st}
    ELSE UNION {
        LET after == IF neighbor \notin st.visited
                     THEN { Backtrack(s2, neighbor) :
                              s2 \in find_paths_with_max_steps_helper(
                                         adj, neighbor, end_, max_steps_,
                                         Descend(st, neighbor)) }
                     ELSE {st}
        IN UNION { find_paths_with_max_steps_loop(adj, end_, max_steps_,
                                                  rest \ {neighbor}, s3) : s3 \in after }
        : neighbor \in rest }

\* mutant: path.len() > max_steps (one node too many)
helper_guard_off_by_one(adj, start_, end_, max_steps_, st) ==
    IF start_ = end_ THEN {Record(st)}
    ELSE IF Len(st.path) > max_steps_ THEN {st}
    ELSE LET neighbors == get(adj, start_)
         IN IF neighbors # <<>>
            THEN find_paths_with_max_steps_loop(adj, end_, max_steps_, neighbors[1], st)
            ELSE {st}

\* mutant: the length guard is tested before the comparison with end
helper_guard_first(adj, start_, end_, max_steps_, st) ==
    IF Len(st.path) >= max_steps_ THEN {st}
    ELSE IF start_ = end_ THEN {Record(st)}
    ELSE LET neighbors == get(adj, start_)
         IN IF neighbors # <<>>
            THEN find_paths_with_max_steps_loop(adj, end_, max_steps_, neighbors[1], st)
            ELSE {st}

\* mutant: path.len() == max_steps
helper_guard_equal(adj, start_, end_, max_steps_, st) ==
    IF start_ = end_ THEN {Record(st)}
    ELSE IF Len(st.path) = max_steps_ THEN {st}
    ELSE LET neighbors == get(adj, start_)
         IN IF neighbors # <<>>
            THEN find_paths_with_max_steps_loop(adj, end_, max_steps_, neighbors[1], st)
            ELSE {st}

find_paths_with_max_steps_helper(adj, start_, end_, max_steps_, st) ==
    IF start_ = end_ THEN {Record(st)}
    ELSE IF Len(st.path) >= max_steps_ THEN {st}
    ELSE LET neighbors == get(adj, start_)
         IN IF neighbors # <<>>
            THEN find_paths_with_max_steps_loop(adj, end_, max_steps_, neighbors[1], st)
            ELSE {st}

\* Graph::find_paths_with_max_steps: the possible returned vectors
find_paths_with_max_steps(adj, start_, end_, max_steps_) ==
    LET st == [visited |-> {start_}, path |-> <<start_>>, paths |-> <<>>]
    IN { s.paths : s \in find_paths_with_max_steps_helper(adj, start_, end_,
                                                          max_steps_, st) }

\* ------------------------------------------------------------- actions
Graph == [is_directed |-> is_directed, adjacency_list |-> adjacency_list]

Idle ==
    /\ start = 0 /\ end = 0 /\ max_steps = 0
    /\ visited = {} /\ path = <<>> /\ paths = <<>> /\ stack = <<>>

Init ==
    /\ \E opt \in {"None", "Some(true)", "Some(false)"} :
          /\ is_directed = new(opt).is_directed
          /\ adjacency_list = new(opt).adjacency_list
          /\ call = [op |-> "new", args |-> <<opt>>, pre |-> new(opt), ret |-> <<>>]
    /\ inserted = {}
    /\ Idle

\* T is opaque (only Eq and Hash are used), so a graph and its renaming by a
\* permutation of the keys behave alike: the keys a call passes that are new
\* to the graph are taken in increasing order.
KeysUsed == { p[1] : p \in inserted } \cup { p[2] : p \in inserted }

InKeyOrder(x, y) ==
    LET u == Cardinality(KeysUsed)
    IN /\ x <= u + 1
       /\ y <= (IF x > u THEN x ELSE u) + 1

\* The queries borrow the graph immutably (&self) and keep nothing between
\* calls, so a query returns the same whether or not other queries came
\* before it on the same graph: the caller makes one query per graph it has
\* built, then goes on adding edges.  The states reached are those reached
\* with any number of queries in a row.
NotQueriedYet == call.op \in {"new", "add_edge"}

AddEdge(x, y) ==
    /\ stack = <<>>
    /\ InKeyOrder(x, y)
    /\ Cardinality(inserted \cup {<<x, y>>}) <= MaxEdges
    /\ adjacency_list' = add_edge(is_directed, adjacency_list, x, y)
    /\ inserted' = inserted \cup {<<x, y>>}
    /\ call' = [op |-> "add_edge", args |-> <<x, y>>, pre |-> Graph, ret |-> <<>>]
    /\ UNCHANGED <<is_directed, walkVars>>

FindAllPaths(s, e) ==
    /\ stack = <<>>
    /\ NotQueriedYet
    /\ InKeyOrder(s, e)
    /\ \E r \in find_all_paths(adjacency_list, s, e) :
          call' = [op |-> "find_all_paths", args |-> <<s, e>>, pre |-> Graph, ret |-> r]
    /\ UNCHANGED <<graphVars, walkVars>>

FindPathsWithMaxSteps(s, e, k) ==
    /\ stack = <<>>
    /\ NotQueriedYet
    /\ InKeyOrder(s, e)
    /\ \E r \in find_paths_with_max_steps(adjacency_list, s, e, k) :
          call' = [op |-> "find_paths_with_max_steps", args |-> <<s, e, k>>,
                   pre |-> Graph, ret |-> r]
    /\ UNCHANGED <<graphVars, walkVars>>

Next ==
    \/ \E x, y \in Nodes : AddEdge(x, y)
    \/ \E s, e \in Nodes : FindAllPaths(s, e)
    \/ \E s, e \in Nodes, k \in StepLimits : FindPathsWithMaxSteps(s, e, k)

Spec == Init /\ [][Next]_vars


\* ------------------------------------------- queries, statement by statement
\* The recursion of the helpers on an explicit stack.  A frame is one helper
\* invocation: its parameter start, where it stands, the neighbours its
\* iterator has not yielded yet, the loop variable, and (history) the shared
\* locals as they were when it was entered.
\*   "enter"  at the first statement (line 61 / 110)
\*   "loop"   at the head of the for loop (line 67 / 120)
\*   "after"  the recursive call of line 71 / 124 is running or has returned
\*   "ret"    about to return
\* Machine stack of the process, in helper frames; the helpers never come
\* near it (depth stays within NumNodes), a runaway recursion would abort there.
StackLimit == 5

Frame(node) ==
    [start |-> node, pc |-> "enter", iter |-> {}, neighbor |-> 0,
     entry |-> [visited |-> visited', path |-> path']]

Top == stack[Len(stack)]

SetTop(f) == [stack EXCEPT ![Len(stack)] = f]

Pending(op, args) == [op |-> op, args |-> args, pre |-> Graph, ret |-> <<>>]

\* find_all_paths, lines 40-47
StartFindAllPaths(s, e) ==
    /\ stack = <<>>
    /\ NotQueriedYet
    /\ InKeyOrder(s, e)
    /\ start' = s /\ end' = e /\ max_steps' = 0
    /\ paths' = <<>>
    /\ visited' = {s}
    /\ path' = <<s>>
    /\ stack' = <<Frame(s)>>
    /\ call' = Pending("find_all_paths", <<s, e>>)
    /\ UNCHANGED graphVars

\* find_paths_with_max_steps, lines 81-95
StartFindPathsWithMaxSteps(s, e, k) ==
    /\ stack = <<>>
    /\ NotQueriedYet
    /\ InKeyOrder(s, e)
    /\ start' = s /\ end' = e /\ max_steps' = k
    /\ paths' = <<>>
    /\ visited' = {s}
    /\ path' = <<s>>
    /\ stack' = <<Frame(s)>>
    /\ call' = Pending("find_paths_with_max_steps", <<s, e, k>>)
    /\ UNCHANGED graphVars

\* lines 66 / 119: if let Some(neighbors) = self.adjacency_list.get(&start)
EnterLoop(f) ==
    LET neighbors == get(adjacency_list, f.start)
    IN IF neighbors # <<>>
       THEN [f EXCEPT !.pc = "loop", !.iter = neighbors[1]]
       ELSE [f EXCEPT !.pc = "ret"]

\* find_all_paths_helper, lines 61-66
WalkEnterAll ==
    /\ stack # <<>>
    /\ call.op = "find_all_paths"
    /\ Top.pc = "enter"
    /\ IF Top.start = end
       THEN /\ paths' = Append(paths, path)
            /\ stack' = SetTop([Top EXCEPT !.pc = "ret"])
       ELSE /\ paths' = paths
            /\ stack' = SetTop(EnterLoop(Top))
    /\ UNCHANGED <<graphVars, call, start, end, max_steps, visited, path>>

\* mutant: path.len() > max_steps
LengthGuard_off_by_one == Len(path) > max_steps

\* line 115: path.len() >= max_steps
LengthGuard == Len(path) >= max_steps

\* find_paths_with_max_steps_helper, lines 110-119
WalkEnterMax ==
    /\ stack # <<>>
    /\ call.op = "find_paths_with_max_steps"
    /\ Top.pc = "enter"
    /\ IF Top.start = end
       THEN /\ paths' = Append(paths, path)
            /\ stack' = SetTop([Top EXCEPT !.pc = "ret"])
       ELSE IF LengthGuard
       THEN /\ paths' = paths
            /\ stack' = SetTop([Top EXCEPT !.pc = "ret"])
       ELSE /\ paths' = paths
            /\ stack' = SetTop(EnterLoop(Top))
    /\ UNCHANGED <<graphVars, call, start, end, max_steps, visited, path>>

\* mutant: the visited test is dropped
Unvisited_always(neighbor) == TRUE

\* lines 68 / 121: !visited.contains(neighbor)
Unvisited(neighbor) == neighbor \notin visited

\* what the iterator of the for loop has left once it has yielded neighbor
Advance(iter, neighbor) == iter \ {neighbor}

\* lines 67-71 / 120-131: the next neighbour, in any order; if unvisited it is
\* marked, pushed and the helper is called on it
WalkLoop ==
    /\ stack # <<>>
    /\ Top.pc = "loop"
    /\ IF Top.iter = {}
       THEN /\ stack' = SetTop([Top EXCEPT !.pc = "ret"])
            /\ UNCHANGED <<visited, path>>
       ELSE \E neighbor \in Top.iter :
               IF Unvisited(neighbor)
               THEN /\ Len(stack) < StackLimit
                    /\ visited' = visited \cup {neighbor}
                    /\ path' = Append(path, neighbor)
                    /\ stack' = Append(
                          SetTop([Top EXCEPT !.pc = "after",
                                             !.iter = Advance(@, neighbor),
                                             !.neighbor = neighbor]),
                          Frame(neighbor))
               ELSE /\ stack' = SetTop([Top EXCEPT !.iter = Advance(@, neighbor)])
                    /\ UNCHANGED <<visited, path>>
    /\ UNCHANGED <<graphVars, call, start, end, max_steps, paths>>

\* mutant: visited.remove(neighbor) forgotten
WalkBacktrack_keeps_visited ==
    /\ stack # <<>>
    /\ Top.pc = "after"
    /\ path' = pop(path)
    /\ visited' = visited
    /\ stack' = SetTop([Top EXCEPT !.pc = "loop", !.neighbor = 0])
    /\ UNCHANGED <<graphVars, call, start, end, max_steps, paths>>

\* lines 72-73 / 132-133, once the call has returned
WalkBacktrack ==
    /\ stack # <<>>
    /\ Top.pc = "after"
    /\ path' = pop(path)
    /\ visited' = visited \ {Top.neighbor}
    /\ stack' = SetTop([Top EXCEPT !.pc = "loop", !.neighbor = 0])
    /\ UNCHANGED <<graphVars, call, start, end, max_steps, paths>>

\* a helper invocation returns; the outermost one returns into the public
\* function, which returns paths (lines 49 / 97) and drops its locals
WalkReturn ==
    /\ stack # <<>>
    /\ Top.pc = "ret"
    /\ stack' = pop(stack)
    /\ IF Len(stack) = 1
       THEN /\ call' = [call EXCEPT !.ret = paths]
            /\ start' = 0 /\ end' = 0 /\ max_steps' = 0
            /\ visited' = {} /\ path' = <<>> /\ paths' = <<>>
       ELSE UNCHANGED <<call, start, end, max_steps, visited, path, paths>>
    /\ UNCHANGED graphVars

WalkStep == WalkEnterAll \/ WalkEnterMax \/ WalkLoop \/ WalkBacktrack \/ WalkReturn

WalkNext ==
    \/ \E x, y \in Nodes : AddEdge(x, y)
    \/ \E s, e \in Nodes : StartFindAllPaths(s, e)
    \/ \E s, e \in Nodes, k \in StepLimits : StartFindPathsWithMaxSteps(s, e, k)
    \/ WalkEnterAll
    \/ WalkEnterMax
    \/ WalkLoop
    \/ WalkBacktrack
    \/ WalkReturn

WalkSpec == Init /\ [][WalkNext]_vars

\* A call is synchronous: once started, the thread keeps executing statements.
WalkFair == WalkSpec /\ WF_vars(WalkStep)

\* The two renderings of the queries agree: what the stepwise run returns is
\* one of the vectors the functions can return.
WalkAgrees ==
    (stack = <<>> /\ call.op = "find_all_paths" =>
        call.ret \in find_all_paths(adjacency_list, call.args[1], call.args[2]))
    /\ (stack = <<>> /\ call.op = "find_paths_with_max_steps" =>
        call.ret \in find_paths_with_max_steps(adjacency_list, call.args[1],
                                               call.args[2], call.args[3]))

\* ------------------------------------------------- vocabulary of the claims
Range(seq) == { seq[i] : i \in DOMAIN seq }

NoDuplicates(seq) == \A i, j \in DOMAIN seq : i # j => seq[i] # seq[j]

\* u -> v is recorded in the adjacency mapping
IsEdge(adj, u, v) == u \in DOMAIN adj /\ v \in adj[u]

Edges(adj) == { e \in Nodes \X Nodes : IsEdge(adj, e[1], e[2]) }

\* every key or neighbour of the mapping
NodesOf(adj) == DOMAIN adj \cup UNION { adj[k] : k \in DOMAIN adj }

\* p is a simple path from s to e: distinct nodes, consecutive pairs are edges
IsSimplePath(adj, p, s, e) ==
    /\ Len(p) >= 1
    /\ p[1] = s
    /\ p[Len(p)] = e
    /\ NoDuplicates(p)
    /\ \A i \in 1..(Len(p) - 1) : IsEdge(adj, p[i], p[i + 1])

\* distinct nodes bound a simple path to NumNodes entries
SimplePaths(adj, s, e) ==
    { p \in UNION { [1..n -> Nodes] : n \in 1..NumNodes } : IsSimplePath(adj, p, s, e) }

RECURSIVE ReachableFrom(_, _)
ReachableFrom(adj, S) ==
    LET S2 == S \cup UNION { adj[n] : n \in S \cap DOMAIN adj }
    IN IF S2 = S THEN S ELSE ReachableFrom(adj, S2)

IsQuery == call.op \in {"find_all_paths", "find_paths_with_max_steps"}

\* ------------------------------------------------------------- claims (Spec)

\* C1: find_all_paths(start, end) returns exactly the simple paths from start
\* to end, each once; it is empty when end is unreachable and when start has
\* no adjacency entry and start # end.
C1_AllPathsExact ==
    call.op = "find_all_paths" =>
        LET s == call.args[1]
            e == call.args[2]
        IN /\ Range(call.ret) = SimplePaths(adjacency_list, s, e)
           /\ NoDuplicates(call.ret)
           /\ e \notin ReachableFrom(adjacency_list, {s}) => call.ret = <<>>
           /\ (s \notin DOMAIN adjacency_list /\ s # e) => call.ret = <<>>

\* find_all_paths returned several paths from a graph with a cycle
C1_Witness ==
    /\ call.op = "find_all_paths"
    /\ Len(call.ret) >= 2
    /\ \E n \in DOMAIN adjacency_list : n \in ReachableFrom(adjacency_list, adjacency_list[n])

\* C2 as stated: for every k >= 0, also with start = end, the bounded result is
\* the filter of find_all_paths by node count <= k.
C2_FilterForEveryK ==
    call.op = "find_paths_with_max_steps" =>
        LET s == call.args[1]
            e == call.args[2]
            k == call.args[3]
        IN \A all \in find_all_paths(adjacency_list, s, e) :
              /\ \A i \in DOMAIN call.ret :
                    Len(call.ret[i]) <= k /\ call.ret[i] \in Range(all)
              /\ \A j \in DOMAIN all : Len(all[j]) <= k => all[j] \in Range(call.ret)

\* C2 amended: the same for every k, start, end except k = 0 with start = end
\* (where the bounded result is [[start]], one path of 1 > k nodes).
C2_FilterUnlessZeroAtEnd ==
    (call.op = "find_paths_with_max_steps"
        /\ (call.args[3] >= 1 \/ call.args[1] # call.args[2])) =>
        LET s == call.args[1]
            e == call.args[2]
            k == call.args[3]
        IN \A all \in find_all_paths(adjacency_list, s, e) :
              /\ \A i \in DOMAIN call.ret :
                    Len(call.ret[i]) <= k /\ call.ret[i] \in Range(all)
              /\ \A j \in DOMAIN all : Len(all[j]) <= k => all[j] \in Range(call.ret)

\* a bounded query kept some of the unbounded paths and dropped others
C2_Witness ==
    /\ call.op = "find_paths_with_max_steps"
    /\ call.args[3] >= 1
    /\ Len(call.ret) >= 1
    /\ \E all \in find_all_paths(adjacency_list, call.args[1], call.args[2]) :
          Len(all) > Len(call.ret)

\* C3: every path returned by either query has no repeated node, starts with
\* start, ends with end, and each consecutive pair is a recorded edge.
C3_ReturnedPathsSimple ==
    IsQuery =>
        \A i \in DOMAIN call.ret :
            IsSimplePath(adjacency_list, call.ret[i], call.args[1], call.args[2])

\* a query returned a path of three nodes or more through a node with a self-loop
C3_Witness ==
    /\ IsQuery
    /\ \E i \in DOMAIN call.ret :
          /\ Len(call.ret[i]) >= 3
          /\ \E n \in Range(call.ret[i]) : IsEdge(adjacency_list, n, n)

\* C4: every inserted pair (x, y) has y among x's neighbours; undirected: also
\* x among y's, and the relation is symmetric; directed: only first arguments
\* of add_edge have an adjacency entry.
C4_InsertedEdgesRecorded ==
    /\ \A p \in inserted : IsEdge(adjacency_list, p[1], p[2])
    /\ ~is_directed =>
          /\ \A p \in inserted : IsEdge(adjacency_list, p[2], p[1])
          /\ \A u, v \in Nodes :
                IsEdge(adjacency_list, u, v) => IsEdge(adjacency_list, v, u)
    /\ is_directed => DOMAIN adjacency_list \subseteq { p[1] : p \in inserted }

\* a directed graph after add_edge(x, y) calls, with a target y that has no entry
C4_Witness ==
    /\ is_directed
    /\ Cardinality(inserted) >= 2
    /\ \E p \in inserted : p[2] \notin DOMAIN adjacency_list

\* C5: with start = end both queries return exactly [[start]], for any graph
\* and any max_steps including 0.
C5_StartIsEnd ==
    (IsQuery /\ call.args[1] = call.args[2]) => call.ret = << <<call.args[1]>> >>

\* find_paths_with_max_steps(s, s, 0) returned, s on a cycle through another node
C5_Witness ==
    /\ call.op = "find_paths_with_max_steps"
    /\ call.args[1] = call.args[2]
    /\ call.args[3] = 0
    /\ \E n \in Nodes \ {call.args[1]} :
          /\ IsEdge(adjacency_list, call.args[1], n)
          /\ call.args[1] \in ReachableFrom(adjacency_list, {n})

\* C6: for k1 < k2 the paths of find_paths_with_max_steps(s, e, k1) are among
\* those of find_paths_with_max_steps(s, e, k2).
C6_Monotone ==
    call.op = "find_paths_with_max_steps" =>
        \A k2 \in StepLimits :
            call.args[3] < k2 =>
                \A r2 \in find_paths_with_max_steps(adjacency_list, call.args[1],
                                                    call.args[2], k2) :
                    Range(call.ret) \subseteq Range(r2)

\* a bounded query returned paths, and a larger limit returns strictly more
C6_Witness ==
    /\ call.op = "find_paths_with_max_steps"
    /\ Len(call.ret) >= 1
    /\ \E k2 \in StepLimits :
          /\ call.args[3] < k2
          /\ \E r2 \in find_paths_with_max_steps(adjacency_list, call.args[1],
                                                 call.args[2], k2) :
                Len(r2) > Len(call.ret)

\* C7: add_edge(x, y) keeps every key and neighbour and is_directed; the only
\* new entries are y under x and, undirected, x under y; inserting an edge
\* already present leaves the graph unchanged.
C7_AddEdgeOnlyAdds ==
    call.op = "add_edge" =>
        LET x == call.args[1]
            y == call.args[2]
            before == call.pre.adjacency_list
        IN /\ is_directed = call.pre.is_directed
           /\ \A k \in DOMAIN before :
                 k \in DOMAIN adjacency_list /\ before[k] \subseteq adjacency_list[k]
           /\ Edges(adjacency_list) \ Edges(before) \subseteq
                 (IF is_directed THEN {<<x, y>>} ELSE {<<x, y>>, <<y, x>>})
           /\ DOMAIN adjacency_list \ DOMAIN before \subseteq
                 (IF is_directed THEN {x} ELSE {x, y})
           /\ IsEdge(before, x, y) => adjacency_list = before

\* add_edge(x, y) on a directed graph that already held x -> y and other edges
C7_Witness ==
    /\ call.op = "add_edge"
    /\ is_directed
    /\ IsEdge(call.pre.adjacency_list, call.args[1], call.args[2])
    /\ Cardinality(Edges(adjacency_list)) >= 2


\* ------------------------------------------------- claims (WalkSpec, WalkFair)
Max(a, b) == IF a >= b THEN a ELSE b

\* C8: every call of find_all_paths and of find_paths_with_max_steps returns.
C8_Terminates == [](stack # <<>> => <>(stack = <<>>))

\* a query has returned paths from a graph with a cycle and a self-loop
C8_Witness ==
    /\ stack = <<>>
    /\ IsQuery
    /\ Len(call.ret) >= 1
    /\ call.args[1] # call.args[2]
    /\ \E n \in Nodes : IsEdge(adjacency_list, n, n)
    /\ \E n \in DOMAIN adjacency_list :
          n \in ReachableFrom(adjacency_list, adjacency_list[n] \ {n})

C10_DepthWithinNodes ==
    stack # <<>> =>
        /\ Len(stack) <= Cardinality(NodesOf(adjacency_list))
        /\ Len(path) <= Cardinality(NodesOf(adjacency_list))
        /\ (call.op = "find_paths_with_max_steps" /\ max_steps >= 1) =>
              (Len(stack) <= max_steps /\ Len(path) <= max_steps)

\* C10 amended: never more than the number of distinct nodes of the graph, or
\* 1 if the graph has none (path always holds start); nor more than max_steps
\* when max_steps >= 1.
C10_DepthWithinNodesOrOne ==
    stack # <<>> =>
        /\ Len(stack) <= Max(1, Cardinality(NodesOf(adjacency_list)))
        /\ Len(path) <= Max(1, Cardinality(NodesOf(adjacency_list)))
        /\ (call.op = "find_paths_with_max_steps" /\ max_steps >= 1) =>
              (Len(stack) <= max_steps /\ Len(path) <= max_steps)

\* the length guard cuts a branch at max_steps nodes although an unvisited
\* neighbour is left, in a graph where the unbounded walk gets deeper
C10_Witness ==
    /\ stack # <<>>
    /\ call.op = "find_paths_with_max_steps"
    /\ max_steps >= 2
    /\ Len(path) = max_steps
    /\ Len(stack) = max_steps
    /\ Top.pc = "ret"
    /\ Top.start # end
    /\ \E n \in Nodes \ visited : IsEdge(adjacency_list, Top.start, n)

=============================================================================
